---- MODULE Spec2Model ----
(***************************************************************************)
(* embetter/utils.py: the disk-cached transform wrapper `cached` and the   *)
(* generator `batched`.                                                    *)
(*                                                                         *)
(* Python values are encoded so that TLC can compare any two of them:      *)
(*   - a Python str is the sequence of its character codes;                *)
(*   - a value held in the store or in a result slot is a record           *)
(*     [tag, data]: tag "ndarray" with data the sequence of the entries of *)
(*     a 1-D numeric array, or tag "str" with data the character codes.    *)
(* Python positions are 0-based; the sequences here are 1-based, so index  *)
(* i of the source is position i + 1 here.                                 *)
(***************************************************************************)
EXTENDS Integers, Sequences, FiniteSets, TLC

VARIABLES
    disk,        \* directory name -> store (a function from its keys to values)
    pipe,        \* the wrapped pipeline: what its transform computes per item
    directory,   \* wrapper -> cache.directory, fixed by cached(name, pipeline)
    obj,         \* caller -> the wrapper whose transform it called last
    pc,          \* caller -> "idle" | "probe" | "write": where its call stands
    X,           \* caller -> argument X of its current / last call of wrapped
    results,     \* caller -> the dict results, in insertion (= index) order
    text_todo,   \* caller -> text_todo of the call
    i_todo,      \* caller -> i_todo of the call
    out,         \* caller -> what method(text_todo) returned
    done,        \* caller -> number of zipped triples already written back
    ret,         \* caller -> how the call ended
    calls,       \* caller -> arguments method was invoked with in the call
    store0,      \* caller -> the store as it was when the call began
    fresh,       \* caller -> its previous call, if that began on an empty
                 \*           store, got one value per miss and returned
    computed,    \* wrapper -> the entries that earlier calls of its transform
                 \*            computed and wrote back before they returned
    crashed,     \* caller -> its previous call, if that was cut off during
                 \*           its write-back
    gen          \* the generator object made by batched(iterable, n)

vars == <<disk, pipe, directory, obj, pc, X, results, text_todo, i_todo, out, done,
          ret, calls, store0, fresh, computed, crashed, gen>>

cvars == <<disk, pipe, directory, obj, pc, X, results, text_todo, i_todo, out, done,
           ret, calls, store0, fresh, computed, crashed>>

-----------------------------------------------------------------------------
(* Bounds of the model *)

MaxLen == 3      \* longest argument X of a wrapped call
MaxConcLen == 2  \* longest argument X of a call that runs beside another
MaxS == 4        \* longest iterable given to batched, but for [1, 2, 3, 4, 5]
MaxN == 3        \* largest batch size n given to batched

-----------------------------------------------------------------------------
(* Python values *)

ab == <<97, 98>>              \* "ab"
abc == <<97, 98, 99>>         \* "abc"
Items == {ab, abc}

TODO == <<84, 79, 68, 79>>    \* the str "TODO"

PyString(s) == [tag |-> "str", data |-> s]
NdArray(d) == [tag |-> "ndarray", data |-> d]

Vectors == {NdArray(<<2>>), NdArray(<<3>>)}
Values == Vectors \cup {PyString(TODO)}

IsVector(v) == v.tag = "ndarray"

RECURSIVE JoinEntries(_)
JoinEntries(d) ==
    IF d = <<>> THEN <<>>
    ELSE IF Len(d) = 1 THEN <<48 + d[1]>>
    ELSE <<48 + d[1], 32>> \o JoinEntries(Tail(d))

\* str(x): a str is itself; a 1-D array of one-digit integers prints as "[2 3]".
PyStr(x) ==
    IF x.tag = "str" THEN x.data
    ELSE <<91>> \o JoinEntries(x.data) \o <<93>>

Min(a, b) == IF a < b THEN a ELSE b

-----------------------------------------------------------------------------
(* The store (diskcache.Cache) *)

Names == {"d1", "d2"}
Wrappers == {1, 2}
Callers == {1, 2}

EmptyStore == [x \in {} |-> PyString(TODO)]

Stores == UNION {[K -> Values] : K \in SUBSET Items}

\* a set that drops every other entry of the store
StoreSetReplaces(store, key, value) == [x \in {key} |-> value]

\* a set that stores nothing
StoreSetSkips(store, key, value) == store

\* reference.set(text, x_tfm)
StoreSet(store, key, value) ==
    [x \in (DOMAIN store) \cup {key} |-> IF x = key THEN value ELSE store[x]]

\* a write-back handle opened on a directory of the wrapper's own
ReferenceOwn(w) == IF w = 1 THEN "d1" ELSE "d2"

\* Cache(cache.directory): the directory the write-back handle opens
Reference(w) == directory[w]

-----------------------------------------------------------------------------
(* wrapped(X, y=None) *)

\* a probe that never finds the key
ProbeAlwaysPending(store, x) == PyString(TODO)

\* cache[x] if x in cache else "TODO"
ProbeValue(store, x) == IF x \in DOMAIN store THEN store[x] ELSE PyString(TODO)

\* a test that takes every slot for a pending one
IsTodoAlways(x) == TRUE

\* str(x) == "TODO"
IsTodo(x) == PyStr(x) = TODO

Indices(res) == [i \in 1..Len(res) |-> i]

\* [i for i, x in results.items() if str(x) == "TODO"]
ITodo(res) == SelectSeq(Indices(res), LAMBDA i : IsTodo(res[i]))

\* a text_todo that forwards every item
TextTodoAll(Xs, res) == Xs

\* a text_todo that forwards each missing item once
TextTodoOnce(Xs, res) ==
    LET idx == SelectSeq(Indices(res), LAMBDA i :
                   IsTodo(res[i]) /\ \A k \in 1..(i - 1) : Xs[k] # Xs[i])
    IN  [n \in 1..Len(idx) |-> Xs[idx[n]]]

\* [X[i] for i, x in results.items() if str(x) == "TODO"]
TextTodo(Xs, res) ==
    LET idx == SelectSeq(Indices(res), LAMBDA i : IsTodo(res[i]))
    IN  [n \in 1..Len(idx) |-> Xs[idx[n]]]

\* the pipelines wrapped here: "abc" gets the vector [3]; "ab" gets [2] (the
\* pipeline that returns [len(x)]), [3] or the str "TODO"
Pipelines == {p \in [Items -> Values] : p[abc] = NdArray(<<Len(abc)>>)}

LenPipeline == [x \in Items |-> NdArray(<<Len(x)>>)]

\* pipeline.transform of a pipeline that keeps its interface: one value per
\* item, in order
Transform(p, todo) == [n \in 1..Len(todo) |-> p[todo[n]]]

\* what method(text_todo) may return: the values of the items, or fewer
MethodOutputs(p, todo) ==
    {SubSeq(Transform(p, todo), 1, m) : m \in 0..Len(todo)}

\* zip(i_todo, text_todo, out) stops with its shortest argument
ZipLen(it, tt, o) == Min(Len(it), Min(Len(tt), Len(o)))

\* an array with the rows in reverse order
NpArrayReversed(res) == [i \in 1..Len(res) |-> res[Len(res) + 1 - i]]

\* np.array([arr for i, arr in results.items()]): the rows in insertion order
NpArray(res) == [i \in 1..Len(res) |-> res[i]]

\* all rows are arrays of one shape, or all are str: np.array builds a
\* regular array
Homogeneous(res) == \A i, j \in 1..Len(res) : res[i].tag = res[j].tag

NoRet == [status |-> "none", exc |-> "", value |-> <<>>]
Returned(a) == [status |-> "returned", exc |-> "", value |-> a]
Raised(e) == [status |-> "raised", exc |-> e, value |-> <<>>]

Inputs == UNION {[1..n -> Items] : n \in 0..MaxLen}

Crashed == [status |-> "crashed", exc |-> "", value |-> <<>>]

NoFresh == [valid |-> FALSE, dir |-> "", X |-> <<>>, value |-> <<>>]

NoCrash == [valid |-> FALSE, dir |-> "", X |-> <<>>, todo |-> <<>>, done |-> 0,
            store0 |-> EmptyStore]

\* method returned one value per item of text_todo, as its interface says
KeptInterface(t) == Len(out[t]) = Len(text_todo[t])

\* the caller's previous call, kept when the caller calls again
Previous(t) ==
    IF ret[t].status = "returned" /\ store0[t] = EmptyStore /\ KeptInterface(t)
    THEN [valid |-> TRUE, dir |-> directory[obj[t]], X |-> X[t],
          value |-> ret[t].value]
    ELSE NoFresh

\* the caller's previous call, when it was cut off during write-back: its X,
\* its miss list, how many of the misses it had written and the store it
\* began on
PreviousCrash(t) ==
    IF ret[t].status = "crashed"
    THEN [valid |-> TRUE, dir |-> directory[obj[t]], X |-> X[t],
          todo |-> text_todo[t], done |-> done[t], store0 |-> store0[t]]
    ELSE NoCrash

\* the entries the call has written so far (a later write of a key replaces
\* an earlier one)
WrittenBack(t) ==
    LET keys == {text_todo[t][j] : j \in 1..done[t]}
        last(x) == CHOOSE j \in 1..done[t] :
                      /\ text_todo[t][j] = x
                      /\ \A k \in 1..done[t] : text_todo[t][k] = x => k <= j
    IN  [x \in keys |-> out[t][last(x)]]

\* the entries of store a with those of store b put over them
Over(a, b) ==
    [x \in (DOMAIN a) \cup (DOMAIN b) |-> IF x \in DOMAIN b THEN b[x] ELSE a[x]]

\* what the wrappers have computed and written once the caller's previous
\* call is counted in
Earlier(t) ==
    IF ret[t].status = "returned"
    THEN [computed EXCEPT ![obj[t]] = Over(@, WrittenBack(t))]
    ELSE computed

\* line 56: caller t calls the transform of wrapper w with X = items
Begin(t, w, items) ==
    /\ pc[t] = "idle"
    /\ pc' = [pc EXCEPT ![t] = "probe"]
    /\ obj' = [obj EXCEPT ![t] = w]
    /\ X' = [X EXCEPT ![t] = items]
    /\ results' = [results EXCEPT ![t] = <<>>]
    /\ text_todo' = [text_todo EXCEPT ![t] = <<>>]
    /\ i_todo' = [i_todo EXCEPT ![t] = <<>>]
    /\ out' = [out EXCEPT ![t] = <<>>]
    /\ done' = [done EXCEPT ![t] = 0]
    /\ ret' = [ret EXCEPT ![t] = NoRet]
    /\ calls' = [calls EXCEPT ![t] = <<>>]
    /\ store0' = [store0 EXCEPT ![t] = disk[directory[w]]]
    /\ fresh' = [fresh EXCEPT ![t] = Previous(t)]
    /\ computed' = Earlier(t)
    /\ crashed' = [crashed EXCEPT ![t] = PreviousCrash(t)]
    /\ UNCHANGED <<disk, pipe, directory, gen>>

\* a probe that computes a missing item on the spot and writes it back
\* before the next item is probed
ProbeWriteThrough(t) ==
    /\ pc[t] = "probe"
    /\ Len(results[t]) < Len(X[t])
    /\ LET x == X[t][Len(results[t]) + 1]
           v == ProbeValue(disk[directory[obj[t]]], x)
       IN  IF IsTodo(v)
           THEN /\ results' = [results EXCEPT ![t] = Append(@, pipe[x])]
                /\ disk' = [disk EXCEPT ![directory[obj[t]]] =
                       StoreSet(@, x, pipe[x])]
           ELSE /\ results' = [results EXCEPT ![t] = Append(@, v)]
                /\ disk' = disk
    /\ UNCHANGED <<pipe, directory, obj, pc, X, text_todo, i_todo, out,
                   done, ret, calls, store0, fresh, computed, crashed, gen>>

\* line 57, one item of the comprehension: results[i] for the next index i
Probe(t) ==
    /\ pc[t] = "probe"
    /\ Len(results[t]) < Len(X[t])
    /\ results' = [results EXCEPT ![t] =
           Append(@, ProbeValue(disk[directory[obj[t]]], X[t][Len(@) + 1]))]
    /\ UNCHANGED <<disk, pipe, directory, obj, pc, X, text_todo, i_todo, out,
                   done, ret, calls, store0, fresh, computed, crashed, gen>>

\* lines 58-60, method(text_todo) returns
ComputeReturns(t) ==
    /\ pc[t] = "probe"
    /\ Len(results[t]) = Len(X[t])
    /\ text_todo' = [text_todo EXCEPT ![t] = TextTodo(X[t], results[t])]
    /\ i_todo' = [i_todo EXCEPT ![t] = ITodo(results[t])]
    /\ calls' = [calls EXCEPT ![t] = Append(@, TextTodo(X[t], results[t]))]
    /\ \E o \in MethodOutputs(pipe, TextTodo(X[t], results[t])) :
           out' = [out EXCEPT ![t] = o]
    /\ pc' = [pc EXCEPT ![t] = "write"]
    /\ UNCHANGED <<disk, pipe, directory, obj, X, results, done, ret, store0,
                   fresh, computed, crashed, gen>>

\* a wrapped that marks the first missing key in the store before it calls
\* method, which raises
ComputeRaisesAfterWrite(t) ==
    /\ pc[t] = "probe"
    /\ Len(results[t]) = Len(X[t])
    /\ TextTodo(X[t], results[t]) # <<>>
    /\ text_todo' = [text_todo EXCEPT ![t] = TextTodo(X[t], results[t])]
    /\ i_todo' = [i_todo EXCEPT ![t] = ITodo(results[t])]
    /\ calls' = [calls EXCEPT ![t] = Append(@, TextTodo(X[t], results[t]))]
    /\ disk' = [disk EXCEPT ![directory[obj[t]]] =
           StoreSet(@, TextTodo(X[t], results[t])[1], PyString(TODO))]
    /\ ret' = [ret EXCEPT ![t] = Raised("method")]
    /\ pc' = [pc EXCEPT ![t] = "idle"]
    /\ UNCHANGED <<pipe, directory, obj, X, results, out, done, store0,
                   fresh, computed, crashed, gen>>

\* lines 58-60, method(text_todo) raises: the exception leaves wrapped
ComputeRaises(t) ==
    /\ pc[t] = "probe"
    /\ Len(results[t]) = Len(X[t])
    /\ text_todo' = [text_todo EXCEPT ![t] = TextTodo(X[t], results[t])]
    /\ i_todo' = [i_todo EXCEPT ![t] = ITodo(results[t])]
    /\ calls' = [calls EXCEPT ![t] = Append(@, TextTodo(X[t], results[t]))]
    /\ ret' = [ret EXCEPT ![t] = Raised("method")]
    /\ pc' = [pc EXCEPT ![t] = "idle"]
    /\ UNCHANGED <<disk, pipe, directory, obj, X, results, out, done, store0,
                   fresh, computed, crashed, gen>>

\* a loop that takes the key of the write from X, by the count of the turn,
\* and not from text_todo
WriteKeyFromX(t) ==
    /\ pc[t] = "write"
    /\ done[t] < ZipLen(i_todo[t], text_todo[t], out[t])
    /\ LET j == done[t] + 1
           d == Reference(obj[t])
       IN  /\ results' = [results EXCEPT ![t][i_todo[t][j]] = out[t][j]]
           /\ disk' = [disk EXCEPT ![d] = StoreSet(@, X[t][j], out[t][j])]
           /\ done' = [done EXCEPT ![t] = j]
    /\ UNCHANGED <<pipe, directory, obj, pc, X, text_todo, i_todo, out, ret,
                   calls, store0, fresh, computed, crashed, gen>>

\* a loop that writes the store back whole: the store as the call found it
\* with the call's own entries put over it
WriteSnapshot(t) ==
    /\ pc[t] = "write"
    /\ done[t] < ZipLen(i_todo[t], text_todo[t], out[t])
    /\ LET j == done[t] + 1
           d == Reference(obj[t])
           own == [x \in {text_todo[t][k] : k \in 1..j} |-> pipe[x]]
       IN  /\ results' = [results EXCEPT ![t][i_todo[t][j]] = out[t][j]]
           /\ disk' = [disk EXCEPT ![d] = Over(store0[t], own)]
           /\ done' = [done EXCEPT ![t] = j]
    /\ UNCHANGED <<pipe, directory, obj, pc, X, text_todo, i_todo, out, ret,
                   calls, store0, fresh, computed, crashed, gen>>

\* lines 62-64, one turn of the loop over zip(i_todo, text_todo, out)
Write(t) ==
    /\ pc[t] = "write"
    /\ done[t] < ZipLen(i_todo[t], text_todo[t], out[t])
    /\ LET j == done[t] + 1
           d == Reference(obj[t])
       IN  /\ results' = [results EXCEPT ![t][i_todo[t][j]] = out[t][j]]
           /\ disk' = [disk EXCEPT ![d] =
                  StoreSet(@, text_todo[t][j], out[t][j])]
           /\ done' = [done EXCEPT ![t] = j]
    /\ UNCHANGED <<pipe, directory, obj, pc, X, text_todo, i_todo, out, ret,
                   calls, store0, fresh, computed, crashed, gen>>

\* a cut that leaves the entry being written torn: its key is in the store
\* with a value that is not the one computed
CrashTorn(t) ==
    /\ pc[t] = "write"
    /\ done[t] < ZipLen(i_todo[t], text_todo[t], out[t])
    /\ disk' = [disk EXCEPT ![Reference(obj[t])] =
           StoreSet(@, text_todo[t][done[t] + 1],
                    CHOOSE v \in Vectors : v # out[t][done[t] + 1])]
    /\ ret' = [ret EXCEPT ![t] = Crashed]
    /\ pc' = [pc EXCEPT ![t] = "idle"]
    /\ UNCHANGED <<pipe, directory, obj, X, results, text_todo, i_todo,
                   out, done, calls, store0, fresh, computed, crashed, gen>>

\* lines 61-64: the call is cut off during write-back (the process dies, or
\* a reference.set fails), before the loop or after any of its turns; what
\* was written stays in the store
Crash(t) ==
    /\ pc[t] = "write"
    /\ ret' = [ret EXCEPT ![t] = Crashed]
    /\ pc' = [pc EXCEPT ![t] = "idle"]
    /\ UNCHANGED <<disk, pipe, directory, obj, X, results, text_todo, i_todo,
                   out, done, calls, store0, fresh, computed, crashed, gen>>

\* line 65, np.array(...) builds the array and wrapped returns it. Rows that
\* are not all alike (an array beside a str) give an object array in NumPy
\* before 1.24.
ReturnArray(t) ==
    /\ pc[t] = "write"
    /\ done[t] = ZipLen(i_todo[t], text_todo[t], out[t])
    /\ ret' = [ret EXCEPT ![t] = Returned(NpArray(results[t]))]
    /\ pc' = [pc EXCEPT ![t] = "idle"]
    /\ UNCHANGED <<disk, pipe, directory, obj, X, results, text_todo, i_todo,
                   out, done, calls, store0, fresh, computed, crashed, gen>>

\* line 65, np.array(...) raises ValueError on rows that are not all alike
\* (NumPy 1.24 and later)
ReturnValueError(t) ==
    /\ pc[t] = "write"
    /\ done[t] = ZipLen(i_todo[t], text_todo[t], out[t])
    /\ ~Homogeneous(results[t])
    /\ ret' = [ret EXCEPT ![t] = Raised("ValueError")]
    /\ pc' = [pc EXCEPT ![t] = "idle"]
    /\ UNCHANGED <<disk, pipe, directory, obj, X, results, text_todo, i_todo,
                   out, done, calls, store0, fresh, computed, crashed, gen>>

-----------------------------------------------------------------------------
(* batched(iterable, n) *)

\* a Python object the generator yields: an element of the iterable (an
\* int), tagged to tell it from a tuple of elements
PyInt(v) == [tag |-> "int", data |-> <<v>>]

Iterables == (UNION {[1..k -> {1, 2}] : k \in 0..MaxS}) \cup {<<1, 2, 3, 4, 5>>}
Sizes == -1..MaxN

NoGen == [state |-> "none", iterable |-> <<>>, n |-> 0, pulled |-> 0,
          batch |-> <<>>, pos |-> 0, yielded |-> <<>>]

\* a test that lets n = 0 through
BadSizeNegative(n) == n < 0

\* line 82: if n < 1
BadSize(n) == n < 1

\* line 85: tuple(islice(it, n)), the first n elements of the iterable, or
\* all of it when it is shorter
Islice(S, n) == SubSeq(S, 1, Min(n, Len(S)))

\* line 74: calling a generator function makes the generator object and runs
\* none of its body
BatchedCall(S, n) ==
    /\ gen.state \in {"none", "raised", "exhausted"}
    /\ gen' = [state |-> "created", iterable |-> S, n |-> n, pulled |-> 0,
               batch |-> <<>>, pos |-> 0, yielded |-> <<>>]
    /\ UNCHANGED cvars

\* lines 82-83: the first next() runs the body to raise ValueError
NextRaises ==
    /\ gen.state = "created"
    /\ BadSize(gen.n)
    /\ gen' = [gen EXCEPT !.state = "raised"]
    /\ UNCHANGED cvars

\* lines 84-86: the first next() fills the tuple from the iterator and runs
\* to the first yield, or to the end when the tuple is empty
NextFirst ==
    /\ gen.state = "created"
    /\ ~BadSize(gen.n)
    /\ LET b == Islice(gen.iterable, gen.n)
       IN  gen' = [gen EXCEPT
                 !.batch = b,
                 !.pulled = Len(b),
                 !.pos = IF b = <<>> THEN 0 ELSE 1,
                 !.yielded = IF b = <<>> THEN <<>> ELSE <<PyInt(b[1])>>,
                 !.state = IF b = <<>> THEN "exhausted" ELSE "suspended"]
    /\ UNCHANGED cvars

\* lines 85-86: a later next() resumes the loop: the next `yield batch`
NextYield ==
    /\ gen.state = "suspended"
    /\ gen.pos < Len(gen.batch)
    /\ gen' = [gen EXCEPT
              !.pos = @ + 1,
              !.yielded = Append(@, PyInt(gen.batch[gen.pos + 1]))]
    /\ UNCHANGED cvars

\* line 85: the loop is over, the generator ends (StopIteration)
NextStop ==
    /\ gen.state = "suspended"
    /\ gen.pos = Len(gen.batch)
    /\ gen' = [gen EXCEPT !.state = "exhausted"]
    /\ UNCHANGED cvars

-----------------------------------------------------------------------------
(* Specifications *)

\* lines 53 and 69: cached("d1", pipeline) has run twice, giving two wrappers
\* of one directory, which may hold entries from earlier runs or from other
\* writers; "d2" is another directory, new and used by neither wrapper
CacheInit ==
    /\ disk \in [Names -> Stores]
    /\ disk["d2"] = EmptyStore
    /\ pipe \in Pipelines
    /\ directory = [w \in Wrappers |-> "d1"]
    /\ obj = [t \in Callers |-> 1]
    /\ pc = [t \in Callers |-> "idle"]
    /\ X = [t \in Callers |-> <<>>]
    /\ results = [t \in Callers |-> <<>>]
    /\ text_todo = [t \in Callers |-> <<>>]
    /\ i_todo = [t \in Callers |-> <<>>]
    /\ out = [t \in Callers |-> <<>>]
    /\ done = [t \in Callers |-> 0]
    /\ ret = [t \in Callers |-> NoRet]
    /\ calls = [t \in Callers |-> <<>>]
    /\ store0 = [t \in Callers |-> EmptyStore]
    /\ fresh = [t \in Callers |-> NoFresh]
    /\ computed = [w \in Wrappers |-> EmptyStore]
    /\ crashed = [t \in Callers |-> NoCrash]

Init == CacheInit /\ gen = NoGen

\* one caller, one call at a time
Next ==
    \/ \E w \in Wrappers, items \in Inputs : Begin(1, w, items)
    \/ Probe(1)
    \/ ComputeReturns(1)
    \/ ComputeRaises(1)
    \/ Write(1)
    \/ ReturnArray(1)
    \/ ReturnValueError(1)

Spec == Init /\ [][Next]_vars

\* the caller calls again after a call that was not cut off
BeginAnew(t, w, items) ==
    /\ ret[t].status # "crashed"
    /\ Begin(t, w, items)

\* the caller retries the call that was cut off: same wrapper, same X
Retry(t) ==
    /\ ret[t].status = "crashed"
    /\ Begin(t, obj[t], X[t])

\* one caller, one call at a time; a call may be cut off during its
\* write-back, and the caller then retries it
NextCrash ==
    \/ \E w \in Wrappers, items \in Inputs : BeginAnew(1, w, items)
    \/ Retry(1)
    \/ Probe(1)
    \/ ComputeReturns(1)
    \/ ComputeRaises(1)
    \/ Write(1)
    \/ Crash(1)
    \/ ReturnArray(1)
    \/ ReturnValueError(1)

SpecCrash == Init /\ [][NextCrash]_vars

\* caller t makes its one call, on the wrapper of its own
ConcBegin(t, items) ==
    /\ ret[t].status = "none"
    /\ Len(items) <= MaxConcLen
    /\ Begin(t, t, items)

\* two callers, each with its own wrapper of the one store, each making one
\* call; the steps of the two calls interleave freely, each probe and each
\* single-key write being one step of the store
NextConc ==
    \E t \in Callers :
        \/ \E items \in Inputs : ConcBegin(t, items)
        \/ Probe(t)
        \/ ComputeReturns(t)
        \/ ComputeRaises(t)
        \/ Write(t)
        \/ ReturnArray(t)
        \/ ReturnValueError(t)

\* the store holds what earlier runs of the same pipeline left in it
ConcInit ==
    /\ Init
    /\ \A x \in DOMAIN disk["d1"] : disk["d1"][x] = pipe[x]

SpecConc == ConcInit /\ [][NextConc]_vars

BatchedInit ==
    /\ CacheInit
    /\ disk = [d \in Names |-> EmptyStore]
    /\ pipe = LenPipeline
    /\ gen = NoGen

BatchedNext ==
    \/ \E S \in Iterables, n \in Sizes : BatchedCall(S, n)
    \/ NextRaises
    \/ NextFirst
    \/ NextYield
    \/ NextStop

SpecBatched == BatchedInit /\ [][BatchedNext]_vars

-----------------------------------------------------------------------------
(* Properties of wrapped *)

\* the call of caller t has returned an array
Ended(t) == pc[t] = "idle" /\ ret[t].status = "returned"

\* method has been invoked in the call of caller t and has not raised
Computed(t) == calls[t] # <<>> /\ ret[t].exc # "method"

\* every entry of the store is what pipeline p computes for its key
StoreFrom(p, store) == \A x \in DOMAIN store : store[x] = p[x]

\* every entry of the store is a numeric vector
VectorStore(store) == \A x \in DOMAIN store : IsVector(store[x])

\* the pipeline computes a numeric vector for every item
VectorPipeline == \A x \in Items : IsVector(pipe[x])

\* the items of Xs that are no key of the store, in order
Absent(Xs, store) == SelectSeq(Xs, LAMBDA x : x \notin DOMAIN store)

\* the store the wrapper of caller t's call reads
StoreOf(t) == disk[directory[obj[t]]]

\* C1: when the store at the start of a call holds only entries computed by
\* the pipeline and the pipeline's transform returns one value per item, the
\* call returns an array of len(X) rows whose row i is what the pipeline
\* computes for X[i], whatever the hits and misses; with a pipeline of
\* numeric vectors the call does return, unless it is cut off from outside.
C1_OutputMatchesReference ==
    \A t \in Callers :
        (pc[t] = "idle" /\ Computed(t) /\ KeptInterface(t)
            /\ ret[t].status # "crashed"
            /\ StoreFrom(pipe, store0[t]))
        => /\ VectorPipeline => ret[t].status = "returned"
           /\ ret[t].status = "returned" =>
                  /\ Len(ret[t].value) = Len(X[t])
                  /\ ret[t].value = Transform(pipe, X[t])

\* C1 witness: a returned call on [abc, ab, abc] with abc missing and ab
\* stored by the pipeline (miss, hit, miss), the two vectors differing
C1_Witness ==
    \E t \in Callers :
        /\ Ended(t) /\ Computed(t) /\ KeptInterface(t)
        /\ StoreFrom(pipe, store0[t])
        /\ X[t] = <<abc, ab, abc>>
        /\ i_todo[t] = <<1, 3>>
        /\ pipe[ab] # pipe[abc]

C3_PartialHit ==
    \A t \in Callers :
        (Computed(t) /\ VectorStore(store0[t]))
        => /\ calls[t] = <<Absent(X[t], store0[t])>>
           /\ (Ended(t) /\ KeptInterface(t)) =>
                  \A i \in 1..Len(X[t]) :
                      ret[t].value[i] =
                          IF X[t][i] \in DOMAIN store0[t]
                          THEN store0[t][X[t][i]]
                          ELSE pipe[X[t][i]]

\* C3 witness: a returned call on three items, the first and third stored
\* as vectors and the second missing
C3_Witness ==
    \E t \in Callers :
        /\ Ended(t) /\ Computed(t) /\ KeptInterface(t)
        /\ VectorStore(store0[t])
        /\ Len(X[t]) = 3
        /\ X[t][1] \in DOMAIN store0[t]
        /\ X[t][2] \notin DOMAIN store0[t]
        /\ X[t][3] \in DOMAIN store0[t]
        /\ calls[t] = << <<X[t][2]>> >>

\* C4: after a call that returned, in which method returned one value per
\* item, every item of X that was no key of the store when the call began
\* is a key of the store, and its entry is the row the call returned at
\* every index where the item occurs.
C4_WriteBack ==
    \A t \in Callers :
        (Ended(t) /\ Computed(t) /\ KeptInterface(t))
        => \A i \in 1..Len(X[t]) :
               X[t][i] \notin DOMAIN store0[t]
               => /\ X[t][i] \in DOMAIN StoreOf(t)
                  /\ StoreOf(t)[X[t][i]] = ret[t].value[i]

\* C4 witness: a returned call in which an item missing at the start occurs
\* at two indices
C4_Witness ==
    \E t \in Callers :
        /\ Ended(t) /\ Computed(t) /\ KeptInterface(t)
        /\ \E i, k \in 1..Len(X[t]) :
               /\ i < k
               /\ X[t][i] = X[t][k]
               /\ X[t][i] \notin DOMAIN store0[t]
               /\ X[t][i] \in DOMAIN StoreOf(t)

\* C5: when method raises, the call raises and returns no array, and the
\* store is as it was when the call began.
C5_FailureLeavesStore ==
    \A t \in Callers :
        (pc[t] = "idle" /\ ret[t].exc = "method")
        => /\ ret[t].status = "raised"
           /\ ret[t].value = <<>>
           /\ StoreOf(t) = store0[t]

\* C5 witness: method has raised on a batch of two missing items
C5_Witness ==
    \E t \in Callers :
        /\ pc[t] = "idle" /\ ret[t].exc = "method"
        /\ Len(text_todo[t]) = 2
        /\ text_todo[t][1] # text_todo[t][2]

\* C6: an item whose vector an earlier returned call computed and wrote
\* back, through any wrapper of the same store, is never among the items
\* method receives in a later call, and the later call returns for it the
\* vector it found in the store.
C6_NoRecomputation ==
    \A t \in Callers : \A w \in Wrappers :
        (Computed(t) /\ directory[w] = directory[obj[t]])
        => \A i \in 1..Len(X[t]) :
               (X[t][i] \in DOMAIN computed[w] /\ IsVector(computed[w][X[t][i]]))
               => /\ \A k \in 1..Len(calls[t][1]) : calls[t][1][k] # X[t][i]
                  /\ X[t][i] \in DOMAIN store0[t]
                  /\ Ended(t) => ret[t].value[i] = store0[t][X[t][i]]

\* C6 witness: a returned call that holds an item computed by an earlier
\* call beside an item it had to compute itself
C6_Witness ==
    \E t \in Callers :
        /\ Ended(t) /\ Computed(t)
        /\ text_todo[t] # <<>>
        /\ \E i \in 1..Len(X[t]) :
               /\ X[t][i] \in DOMAIN computed[obj[t]]
               /\ IsVector(computed[obj[t]][X[t][i]])

\* C9 as stated: on an empty store, with the pipeline that returns
\* [len(x)], transform(["ab", "abc", "ab"]) returns [[2], [3], [2]] and
\* method is called once, with ["ab", "abc"].
C9_AsStated ==
    \A t \in Callers :
        (pc[t] = "idle" /\ Computed(t) /\ KeptInterface(t)
            /\ ret[t].status # "crashed"
            /\ pipe = LenPipeline /\ store0[t] = EmptyStore
            /\ X[t] = <<ab, abc, ab>>)
        => /\ ret[t] = Returned(<<NdArray(<<2>>), NdArray(<<3>>), NdArray(<<2>>)>>)
           /\ calls[t] = << <<ab, abc>> >>

\* C9 amended: on an empty store, with the pipeline that returns [len(x)],
\* transform(["ab", "abc", "ab"]) returns [[2], [3], [2]] and method is
\* called once, with all three misses ["ab", "abc", "ab"].
C9_LenScenario ==
    \A t \in Callers :
        (pc[t] = "idle" /\ Computed(t) /\ KeptInterface(t)
            /\ ret[t].status # "crashed"
            /\ pipe = LenPipeline /\ store0[t] = EmptyStore
            /\ X[t] = <<ab, abc, ab>>)
        => /\ ret[t] = Returned(<<NdArray(<<2>>), NdArray(<<3>>), NdArray(<<2>>)>>)
           /\ calls[t] = << <<ab, abc, ab>> >>

\* C9 witness: the scenario's call has ended
C9_Witness ==
    \E t \in Callers :
        /\ pc[t] = "idle" /\ Computed(t) /\ KeptInterface(t)
        /\ pipe = LenPipeline /\ store0[t] = EmptyStore
        /\ X[t] = <<ab, abc, ab>>
        /\ done[t] = 3

\* C10: an entry with a vector that a returned call wrote through one
\* wrapper is a hit for a later call through another wrapper made with the
\* same store name: its key is not among the items method receives, and the
\* slot of the later call holds the vector that was written.
C10_SharedNamespace ==
    \A t \in Callers : \A u \in Wrappers :
        (Computed(t) /\ u # obj[t] /\ directory[u] = directory[obj[t]])
        => \A i \in 1..Len(X[t]) :
               (X[t][i] \in DOMAIN computed[u] /\ IsVector(computed[u][X[t][i]]))
               => /\ \A k \in 1..Len(calls[t][1]) : calls[t][1][k] # X[t][i]
                  /\ results[t][i] = computed[u][X[t][i]]
                  /\ Ended(t) => ret[t].value[i] = computed[u][X[t][i]]

\* C10 witness: a returned call through one wrapper on an item that only
\* the other wrapper has computed and written
C10_Witness ==
    \E t \in Callers : \E u \in Wrappers :
        /\ Ended(t) /\ Computed(t)
        /\ u # obj[t] /\ directory[u] = directory[obj[t]]
        /\ \E i \in 1..Len(X[t]) :
               /\ X[t][i] \in DOMAIN computed[u]
               /\ IsVector(computed[u][X[t][i]])
               /\ X[t][i] \notin DOMAIN computed[obj[t]]

\* C11: no step of a wrapped call, whether the call returns or fails, takes
\* a key out of a store: a key present before the step is present after it.
C11_KeysOnlyGrow ==
    [][\A d \in Names : DOMAIN disk[d] \subseteq DOMAIN disk'[d]]_vars

\* C11 witness: a call has written a key that was missing into a store that
\* already held another key, which is still there
C11_Witness ==
    \E t \in Callers :
        /\ done[t] >= 1
        /\ store0[t] # EmptyStore
        /\ DOMAIN store0[t] \subseteq DOMAIN StoreOf(t)
        /\ DOMAIN store0[t] # DOMAIN StoreOf(t)

\* C12: method is invoked in a call only when the call's miss list is not
\* empty: no invocation gets the empty list.
C12_NoCallWithoutMiss ==
    \A t \in Callers : \A k \in 1..Len(calls[t]) : calls[t][k] # <<>>

\* C13: within a call every index is probed before method is invoked,
\* method is invoked at most once, on the whole miss batch, and every write
\* comes after that invocation has returned: while the call is still probing
\* it has written nothing and the store is as it was when the call began.
C13_StepOrder ==
    \A t \in Callers :
        /\ Len(calls[t]) <= 1
        /\ calls[t] # <<>> =>
               /\ Len(results[t]) = Len(X[t])
               /\ Len(calls[t][1]) = Len(i_todo[t])
               /\ calls[t][1] = text_todo[t]
        /\ pc[t] = "probe" =>
               /\ calls[t] = <<>>
               /\ done[t] = 0
               /\ StoreOf(t) = store0[t]
        /\ done[t] > 0 =>
               /\ calls[t] # <<>>
               /\ ret[t].exc # "method"
               /\ done[t] <= Len(out[t])

\* C13 witness: a call on three items, with a hit among them, is writing
\* back the second of its two misses
C13_Witness ==
    \E t \in Callers :
        /\ pc[t] = "write"
        /\ Len(X[t]) = 3
        /\ Len(calls[t]) = 1
        /\ Len(calls[t][1]) = 2
        /\ done[t] = 2

\* how many times x occurs in the sequence
Count(x, seq) == Cardinality({i \in 1..Len(seq) : seq[i] = x})

\* the last position of x in the sequence
LastIndex(x, seq) ==
    CHOOSE j \in 1..Len(seq) :
        seq[j] = x /\ \A k \in 1..Len(seq) : seq[k] = x => k <= j

\* C14: an item that is no key of the store when the call begins and occurs
\* k times in X occurs k times in the batch method receives; when method
\* returns one value per item and the call returns, k writes were made for
\* that key and the store holds the value computed for its last occurrence.
C14_NoIntraCallDedup ==
    \A t \in Callers : \A x \in Items :
        (Computed(t) /\ x \notin DOMAIN store0[t])
        => /\ Count(x, calls[t][1]) = Count(x, X[t])
           /\ (Ended(t) /\ KeptInterface(t)) =>
                  /\ Count(x, SubSeq(text_todo[t], 1, done[t])) = Count(x, X[t])
                  /\ Count(x, X[t]) > 0 =>
                         /\ x \in DOMAIN StoreOf(t)
                         /\ StoreOf(t)[x] = out[t][LastIndex(x, text_todo[t])]

\* C14 witness: a returned call on [ab, abc, ab] with "ab" missing and "abc"
\* stored: "ab" went to method twice and was written twice
C14_Witness ==
    \E t \in Callers :
        /\ Ended(t) /\ Computed(t) /\ KeptInterface(t)
        /\ X[t] = <<ab, abc, ab>>
        /\ ab \notin DOMAIN store0[t]
        /\ abc \in DOMAIN store0[t]
        /\ calls[t] = << <<ab, ab>> >>
        /\ done[t] = 2

\* C15: in a call that returned, no row of the array is the pending marker,
\* whatever method returned for the miss batch (pipelines and stores of
\* numeric vectors, so that a str in the array can only be the marker).
C15_AllSlotsResolved ==
    \A t \in Callers :
        (Ended(t) /\ VectorPipeline /\ VectorStore(store0[t]))
        => \A i \in 1..Len(ret[t].value) : ret[t].value[i] # PyString(TODO)

\* the entries a call that was cut off had written: the first n misses
PrefixWritten(c) ==
    [x \in {c.todo[j] : j \in 1..c.done} |-> pipe[x]]

\* C16: when a call is cut off during write-back, with any prefix of its
\* misses written, and the caller retries it with the same X, the retry
\* begins on the old store plus that prefix, finds the written items as
\* hits, gives method exactly the misses that were not written, returns
\* the row the pipeline computes for every index and leaves every item of
\* X in the store (pipelines of numeric vectors, the old store computed by
\* the pipeline, one value per miss).
C16_RetryAfterCrash ==
    \A t \in Callers :
        (crashed[t].valid /\ crashed[t].X = X[t]
            /\ crashed[t].dir = directory[obj[t]]
            /\ VectorPipeline /\ StoreFrom(pipe, crashed[t].store0))
        => /\ store0[t] = Over(crashed[t].store0, PrefixWritten(crashed[t]))
           /\ Computed(t) =>
                  calls[t] = <<SelectSeq(crashed[t].todo,
                                 LAMBDA x : x \notin DOMAIN store0[t])>>
           /\ (Ended(t) /\ Computed(t) /\ KeptInterface(t)) =>
                  /\ ret[t].value = Transform(pipe, X[t])
                  /\ \A i \in 1..Len(X[t]) :
                         /\ X[t][i] \in DOMAIN StoreOf(t)
                         /\ StoreOf(t)[X[t][i]] = pipe[X[t][i]]

\* C16 witness: the retry of a call that was cut off after the first of
\* its two different misses has returned, having given method the second
C16_Witness ==
    \E t \in Callers :
        /\ Ended(t) /\ Computed(t) /\ KeptInterface(t)
        /\ crashed[t].valid /\ crashed[t].X = X[t]
        /\ VectorPipeline /\ StoreFrom(pipe, crashed[t].store0)
        /\ Len(crashed[t].todo) = 2
        /\ crashed[t].todo[1] # crashed[t].todo[2]
        /\ crashed[t].done = 1
        /\ calls[t] = << <<crashed[t].todo[2]>> >>

\* C17: an item goes to method if and only if its key is absent from the
\* store when it is probed, whatever value the store holds under the key:
\* the batch method receives is the items of X that are no key of the store.
C17_MissIffAbsent ==
    \A t \in Callers :
        Computed(t) => calls[t] = <<Absent(X[t], store0[t])>>

\* caller t has a call running or ended
Called(t) == pc[t] # "idle" \/ ret[t].status # "none"

\* the keys the call has in its miss list
MissKeys(t) == {text_todo[t][j] : j \in 1..Len(text_todo[t])}

\* C18: a call writes only keys of its own miss list: every other key of the
\* store, hit or not among the items, keeps its entry, no other key appears
\* and no other directory changes; a call with an empty miss list leaves the
\* store as it was.
C18_WritesOnlyMisses ==
    \A t \in Callers :
        Called(t)
        => /\ \A x \in Items \ MissKeys(t) :
                  /\ x \in DOMAIN StoreOf(t) <=> x \in DOMAIN store0[t]
                  /\ x \in DOMAIN store0[t] => StoreOf(t)[x] = store0[t][x]
           /\ text_todo[t] = <<>> => StoreOf(t) = store0[t]
           /\ \A d \in Names \ {directory[obj[t]]} : disk[d] = EmptyStore

\* C18 witness: a returned call on three items has written its one miss and
\* left the entry of its hit, a different key, in the store
C18_Witness ==
    \E t \in Callers :
        /\ Ended(t)
        /\ Len(X[t]) = 3
        /\ done[t] = 1
        /\ X[t][1] \in DOMAIN store0[t]
        /\ X[t][1] \notin MissKeys(t)
        /\ X[t][2] \in MissKeys(t)
        /\ StoreOf(t) # store0[t]

\* C19: when two callers run transform at the same time, each through its
\* own wrapper of the one store, with the one deterministic pipeline, then
\* whatever the interleaving each call that returns has the row the
\* pipeline computes at every index, and once both have returned the store
\* holds, for every item of both inputs, the value the pipeline computes
\* (store computed by the pipeline at the start, one value per miss).
C19_ConcurrentCalls ==
    LET Fine(t) == /\ Ended(t) /\ Computed(t) /\ KeptInterface(t)
                   /\ StoreFrom(pipe, store0[t])
    IN  /\ \A t \in Callers : Fine(t) => ret[t].value = Transform(pipe, X[t])
        /\ (\A t \in Callers : Fine(t)) =>
               \A t \in Callers : \A i \in 1..Len(X[t]) :
                   /\ X[t][i] \in DOMAIN disk["d1"]
                   /\ disk["d1"][X[t][i]] = pipe[X[t][i]]

\* C19 witness: both calls have returned, each had two different misses,
\* both computed "ab", and the second caller began before the first wrote
C19_Witness ==
    /\ \A t \in Callers :
           /\ Ended(t) /\ Computed(t) /\ KeptInterface(t)
           /\ StoreFrom(pipe, store0[t])
           /\ obj[t] = t
    /\ calls[1] = << <<ab, abc>> >>
    /\ calls[2] = << <<abc, ab>> >>
    /\ store0[1] = EmptyStore
    /\ store0[2] = EmptyStore

-----------------------------------------------------------------------------
(* Properties of batched *)

\* a tuple of elements, as a yielded Python object
PyTuple(s) == [tag |-> "tuple", data |-> s]

\* the batches of S by n: tuples of n elements, the last one of 1 to n
RECURSIVE Batches(_, _)
Batches(S, n) ==
    IF S = <<>> THEN <<>>
    ELSE <<PyTuple(SubSeq(S, 1, Min(n, Len(S))))>>
             \o Batches(SubSeq(S, Min(n, Len(S)) + 1, Len(S)), n)

\* C7: for n >= 1, batched(S, n) run to its end has yielded tuples whose
\* concatenation is S, each of length n but the last, which has 1 to n
\* elements; for an empty S it has yielded nothing.
C7_BatchesReconstruct ==
    (gen.state = "exhausted" /\ gen.n >= 1)
    => gen.yielded = Batches(gen.iterable, gen.n)

\* C8: with n < 1 the generator made by batched(S, n) raises ValueError as
\* soon as it is run (at the first next()), whatever S is; it never yields
\* and pulls no element of S.
C8_BadSizeRaises ==
    (gen.state # "none" /\ gen.n < 1)
    => /\ gen.state \in {"created", "raised"}
       /\ gen.state = "created" => ENABLED NextRaises
       /\ gen.yielded = <<>>
       /\ gen.pulled = 0

\* C8 witness: batched(S, 0) on a non-empty S has raised
C8_Witness ==
    /\ gen.state = "raised"
    /\ gen.n = 0
    /\ gen.iterable # <<>>

====
